---- MODULE Spec2Model ----
(***************************************************************************)
(* A model of radr, a manager of Architecture Decision Records kept as     *)
(* text files in one directory (src/src/actions.rs, domain.rs,             *)
(* repository/fs.rs, yaml_util.rs).                                        *)
(*                                                                         *)
(* Text is modelled as follows.  A string whose characters the code        *)
(* inspects (a title, a slug, a command argument, a number in decimal) is  *)
(* a sequence of one-character strings.  A file is the sequence of its     *)
(* lines (what str::lines() yields, every line ending in a newline); a     *)
(* line is a record whose field k names the prefix the code tests with     *)
(* starts_with / strip_prefix, the other fields holding the text after it. *)
(* Documents are not empty, hold ASCII text, and close the fence they      *)
(* begin with; numbers stay far below 2^32.                                *)
(***************************************************************************)
EXTENDS Integers, Sequences, FiniteSets, TLC

VARIABLES files, index, dirExists, cfg, today, last, pre, steps, calls

vars == <<files, index, dirExists, cfg, today, last, pre, steps, calls>>

(***************************************************************************)
(* Bounds of the model.                                                    *)
(***************************************************************************)
MaxOps == 2

(***************************************************************************)
(* Characters and numbers in text.                                         *)
(***************************************************************************)
None == <<>>
Some(x) == <<x>>
IsSome(o) == Len(o) = 1
Unwrap(o) == o[1]

Digits == <<"0", "1", "2", "3", "4", "5", "6", "7", "8", "9">>
UpperCase == <<"A", "B", "C", "D", "E", "F", "G", "H", "I", "J", "K", "L", "M",
               "N", "O", "P", "Q", "R", "S", "T", "U", "V", "W", "X", "Y", "Z">>
LowerCase == <<"a", "b", "c", "d", "e", "f", "g", "h", "i", "j", "k", "l", "m",
               "n", "o", "p", "q", "r", "s", "t", "u", "v", "w", "x", "y", "z">>

InSeq(c, s) == \E i \in 1..Len(s) : s[i] = c
IndexIn(c, s) == CHOOSE i \in 1..Len(s) : s[i] = c

is_ascii_digit(c) == InSeq(c, Digits)
is_ascii_uppercase(c) == InSeq(c, UpperCase)
is_ascii_lowercase(c) == InSeq(c, LowerCase)
is_ascii_alphabetic(c) == is_ascii_uppercase(c) \/ is_ascii_lowercase(c)
is_ascii_alphanumeric(c) == is_ascii_alphabetic(c) \/ is_ascii_digit(c)
is_ascii_whitespace(c) == c = " "

char_to_ascii_lowercase(c) ==
    IF is_ascii_uppercase(c) THEN LowerCase[IndexIn(c, UpperCase)] ELSE c
char_to_ascii_uppercase(c) ==
    IF is_ascii_lowercase(c) THEN UpperCase[IndexIn(c, LowerCase)] ELSE c

to_ascii_lowercase(s) == [i \in 1..Len(s) |-> char_to_ascii_lowercase(s[i])]

\* str::trim: leading and trailing whitespace removed.
RECURSIVE trim_start(_)
trim_start(s) ==
    IF s # <<>> /\ is_ascii_whitespace(Head(s)) THEN trim_start(Tail(s)) ELSE s
RECURSIVE trim_end(_)
trim_end(s) ==
    IF s # <<>> /\ is_ascii_whitespace(s[Len(s)])
    THEN trim_end(SubSeq(s, 1, Len(s) - 1)) ELSE s
trim(s) == trim_end(trim_start(s))

\* str::trim_start_matches('0')
RECURSIVE trim_start_zeros(_)
trim_start_zeros(s) ==
    IF s # <<>> /\ Head(s) = "0" THEN trim_start_zeros(Tail(s)) ELSE s

\* The decimal digits of n, as format!("{}", n) writes them.
RECURSIVE Decimal(_)
Decimal(n) ==
    IF n < 10 THEN <<Digits[n + 1]>>
    ELSE Decimal(n \div 10) \o <<Digits[(n % 10) + 1]>>

\* format!("{:04}", n): the decimal digits, zero-padded on the left to width 4.
RECURSIVE ZeroPad(_)
ZeroPad(s) == IF Len(s) >= 4 THEN s ELSE ZeroPad(<<"0">> \o s)
Pad4(n) == ZeroPad(Decimal(n))

\* str::parse::<u32>: an optional '+', then one or more digits; anything else
\* is an error (None).  Values stay far below 2^32 in this model.
RECURSIVE DigitsValue(_)
DigitsValue(s) ==
    IF s = <<>> THEN 0
    ELSE 10 * DigitsValue(SubSeq(s, 1, Len(s) - 1)) + (IndexIn(s[Len(s)], Digits) - 1)
AllDigits(s) == s # <<>> /\ \A i \in 1..Len(s) : is_ascii_digit(s[i])
ParseU32(s) ==
    LET body == IF s # <<>> /\ Head(s) = "+" THEN Tail(s) ELSE s
    IN  IF AllDigits(body) THEN Some(DigitsValue(body)) ELSE None

\* domain.rs parse_number
parse_number(s) ==
    LET t == trim_start_zeros(trim(s))
    IN  IF t = <<>> THEN Some(0) ELSE ParseU32(t)

\* domain.rs slugify
RECURSIVE slug_scan(_, _, _)
slug_scan(s, out, last_dash) ==
    IF s = <<>> THEN out
    ELSE LET c == char_to_ascii_lowercase(Head(s))
         IN  IF is_ascii_alphanumeric(c)
             THEN slug_scan(Tail(s), Append(out, c), FALSE)
             ELSE IF (is_ascii_whitespace(c) \/ c = "-" \/ c = "_") /\ ~last_dash
                  THEN slug_scan(Tail(s), Append(out, "-"), TRUE)
                  ELSE slug_scan(Tail(s), out, last_dash)
RECURSIVE pop_dashes(_)
pop_dashes(s) ==
    IF s # <<>> /\ s[Len(s)] = "-" THEN pop_dashes(SubSeq(s, 1, Len(s) - 1)) ELSE s
RECURSIVE shift_dashes(_)
shift_dashes(s) ==
    IF s # <<>> /\ Head(s) = "-" THEN shift_dashes(Tail(s)) ELSE s
slugify(s) ==
    LET out == shift_dashes(pop_dashes(slug_scan(s, <<>>, FALSE)))
    IN  IF out = <<>> THEN <<"a", "d", "r">> ELSE out

\* yaml_util.rs escape_yaml
RECURSIVE escape_quotes(_)
escape_quotes(s) ==
    IF s = <<>> THEN <<>>
    ELSE (IF Head(s) = "\"" THEN <<"\\", "\"">> ELSE <<Head(s)>>) \o escape_quotes(Tail(s))
escape_yaml(input) ==
    LET is_windows_drive_path ==
            /\ Len(input) >= 3
            /\ is_ascii_alphabetic(input[1])
            /\ input[2] = ":"
            /\ (input[3] = "\\" \/ input[3] = "/")
        needs_quotes ==
            \/ (InSeq(":", input) /\ ~is_windows_drive_path)
            \/ InSeq("\"", input)
            \/ InSeq("'", input)
            \/ (input # <<>> /\ is_ascii_digit(input[1]))
    IN  IF needs_quotes THEN <<"\"">> \o escape_quotes(input) \o <<"\"">> ELSE input

(***************************************************************************)
(* Lines of a document.  The raw text of each kind of line:                *)
(*   Heading(num, title)      "# ADR <num>: <title>"                       *)
(*   Blank                    ""                                           *)
(*   TitleLine(t)             "Title: <t>"                                 *)
(*   DateLine(d)              "Date: <d>"                                  *)
(*   StatusLine(s)            "Status: <s>"                                *)
(*   SupersedesBare(num)      "Supersedes: <num>"                          *)
(*   SupersedesLink(num, f)   "Supersedes: [<num>](<file name f>)"         *)
(*   SupersededByLine(num)    "Superseded-by: <num>"                       *)
(*   Fence                    "---"                                        *)
(*   FmTitle(t)               "title: <t>"                                 *)
(*   Text(s)                  any other line; s holds no ": "              *)
(*   H1(title)                "# <title>"; title holds no ": "             *)
(***************************************************************************)
Heading(num, title) == [k |-> "heading", num |-> num, title |-> title]
Blank == [k |-> "blank"]
TitleLine(t) == [k |-> "Title", v |-> t]
DateLine(d) == [k |-> "Date", v |-> d]
StatusLine(s) == [k |-> "Status", v |-> s]
SupersedesBare(num) == [k |-> "Supersedes", link |-> FALSE, num |-> num]
SupersedesLink(num, f) == [k |-> "Supersedes", link |-> TRUE, num |-> num, f |-> f]
SupersededByLine(num) == [k |-> "Superseded-by", num |-> num]
Fence == [k |-> "fence"]
FmTitle(t) == [k |-> "fmtitle", v |-> t]
Text(s) == [k |-> "text", v |-> s]
H1(title) == [k |-> "h1", title |-> title]

\* Local::now().format("%Y-%m-%d") on day d of the month the model runs in.
DateText(d) == <<"2026-11-", Digits[(d \div 10) + 1], Digits[(d % 10) + 1]>>

\* Status texts.
Proposed == <<"Proposed">>
Accepted == <<"Accepted">>
Rejected == <<"Rejected">>
\* format!("Superseded by {:04}", n)
SupersededByText(n) == <<"Superseded by ">> \o Pad4(n)

(***************************************************************************)
(* File names: the stem (no '.' in it) and the extension.                  *)
(***************************************************************************)
\* format!("{:04}-{}.{}", number, slug, ext)
FileName(number, slug, ext) == [stem |-> Pad4(number) \o <<"-">> \o slug, ext |-> ext]
FileNameText(f) == f.stem \o <<".", f.ext>>

\* fs.rs number_from_filename: the regex ^(\d{4})-
number_from_filename(f) ==
    IF /\ Len(f.stem) >= 5
       /\ \A i \in 1..4 : is_ascii_digit(f.stem[i])
       /\ f.stem[5] = "-"
    THEN Some(DigitsValue(SubSeq(f.stem, 1, 4)))
    ELSE None

\* fs.rs title_from_filename
RECURSIVE split_dash(_, _)
split_dash(s, cur) ==
    IF s = <<>> THEN <<cur>>
    ELSE IF Head(s) = "-" THEN <<cur>> \o split_dash(Tail(s), <<>>)
         ELSE split_dash(Tail(s), Append(cur, Head(s)))
RECURSIVE join_space(_)
join_space(ws) ==
    IF ws = <<>> THEN <<>>
    ELSE IF Len(ws) = 1 THEN ws[1]
         ELSE ws[1] \o <<" ">> \o join_space(Tail(ws))
\* A word left in the letter case of the file name.
keep_case(w) == w
capitalize(w) == <<char_to_ascii_uppercase(w[1])>> \o Tail(w)
title_from_filename(f) ==
    IF ~InSeq("-", f.stem) THEN None
    ELSE LET slug == SubSeq(f.stem, IndexIn("-", f.stem) + 1, Len(f.stem))
             words == SelectSeq(split_dash(slug, <<>>), LAMBDA w : w # <<>>)
         IN  IF slug = <<>> THEN None
             ELSE Some(join_space([i \in 1..Len(words) |-> capitalize(words[i])]))

(***************************************************************************)
(* fs.rs parse_adr_file                                                    *)
(***************************************************************************)
ScanLimit == 200

\* line.find(": ") on the first line: <<the text before it, the text after>>,
\* or None when the line holds no ": ".
FirstLineSplit(l) ==
    CASE l.k = "heading" -> Some([head_last |-> l.num, rest |-> l.title])
      [] l.k = "Title" -> Some([head_last |-> None, rest |-> l.v])
      [] l.k = "fmtitle" -> Some([head_last |-> None, rest |-> l.v])
      [] l.k = "Date" -> Some([head_last |-> None, rest |-> l.v])
      [] l.k = "Status" -> Some([head_last |-> None, rest |-> l.v])
      [] l.k = "Superseded-by" -> Some([head_last |-> None, rest |-> l.num])
      [] l.k = "Supersedes" ->
            Some([head_last |-> None,
                  rest |-> IF l.link
                           THEN <<"[">> \o l.num \o <<"](">> \o FileNameText(l.f) \o <<")">>
                           ELSE l.num])
      [] OTHER -> None

\* One step of the scan loop: the accumulator after line l at index i (from 0).
ParseStep(acc, l, i) ==
    LET split == IF i = 0 THEN FirstLineSplit(l) ELSE None
        a1 == IF IsSome(split)
              THEN LET hl == Unwrap(split).head_last
                       n == IF hl = None THEN None ELSE ParseU32(hl)
                   IN  [acc EXCEPT !.number = IF IsSome(n) THEN Unwrap(n) ELSE @,
                                   !.title = trim(Unwrap(split).rest)]
              ELSE acc
    IN  CASE l.k = "Title" -> [a1 EXCEPT !.title = trim(l.v)]
          [] l.k = "Date" -> [a1 EXCEPT !.date = trim(l.v)]
          [] l.k = "Status" -> [a1 EXCEPT !.status = trim(l.v)]
          [] l.k = "Supersedes" ->
                LET n == IF l.link THEN None ELSE ParseU32(trim(l.num))
                IN  IF IsSome(n) THEN [a1 EXCEPT !.supersedes = n] ELSE a1
          [] l.k = "Superseded-by" ->
                LET n == ParseU32(trim(l.num))
                IN  IF IsSome(n) THEN [a1 EXCEPT !.superseded_by = n] ELSE a1
          [] OTHER -> a1

RECURSIVE ParseScan(_, _, _)
ParseScan(acc, lines, i) ==
    IF i >= Len(lines) \/ i >= ScanLimit THEN acc
    ELSE ParseScan(ParseStep(acc, lines[i + 1], i), lines, i + 1)

parse_adr_file(f, lines, now) ==
    LET fnum == number_from_filename(f)
        init == [number |-> IF IsSome(fnum) THEN Unwrap(fnum) ELSE 0,
                 title |-> <<>>,
                 status |-> Accepted,
                 date |-> <<>>,
                 supersedes |-> None,
                 superseded_by |-> None,
                 path |-> f]
        acc == ParseScan(init, lines, 0)
        ft == title_from_filename(f)
    IN  [acc EXCEPT !.title = IF @ = <<>>
                               THEN (IF IsSome(ft) THEN Unwrap(ft)
                                     ELSE <<"U", "n", "t", "i", "t", "l", "e", "d">>)
                               ELSE @,
                    !.date = IF @ = <<>> THEN now ELSE @]

(***************************************************************************)
(* fs.rs FsAdrRepository::list                                             *)
(***************************************************************************)
\* The files list() keeps: regular files with extension "md" whose name
\* matches ^\d{4}-.*\.md$
IsListed(f) == f.ext = "md" /\ IsSome(number_from_filename(f))

\* sort_by_key(|a| a.number) as a sequence; records of equal number keep a
\* fixed relative order.
RECURSIVE SortByNumber(_)
SortByNumber(S) ==
    IF S = {} THEN <<>>
    ELSE LET m == CHOOSE a \in S : \A b \in S : a.number <= b.number
         IN  <<m>> \o SortByNumber(S \ {m})

list(fs, exists, now) ==
    IF ~exists THEN <<>>
    ELSE SortByNumber({parse_adr_file(f, fs[f], now) : f \in {g \in DOMAIN fs : IsListed(g)}})

(***************************************************************************)
(* Vec<String> operations and the text a vector of lines is written as.    *)
(***************************************************************************)
\* Vec::insert(i, x) and Vec::remove(i), i counted from 0.
InsertAt(s, i, x) == SubSeq(s, 1, i) \o <<x>> \o SubSeq(s, i + 1, Len(s))
RemoveAt(s, i) == SubSeq(s, 1, i) \o SubSeq(s, i + 2, Len(s))

\* The lines of the file that holds lines.join("\n"), with a '\n' pushed
\* unless the text already ends with one: no line becomes one empty line, and
\* an empty last line is taken for the final newline.
JoinLines(lines) ==
    IF lines = <<>> THEN <<Blank>>
    ELSE IF Len(lines) >= 2 /\ lines[Len(lines)].k = "blank"
         THEN SubSeq(lines, 1, Len(lines) - 1)
         ELSE lines

\* contents.strip_prefix("---\n") and stripped.find("\n---\n"): the index
\* (from 1) of the closing fence, 0 when the text does not start with a fence
\* or the fence is never closed.
StartsWithFence(lines) == lines # <<>> /\ lines[1].k = "fence"
ClosingFence(lines) ==
    IF StartsWithFence(lines) /\ \E j \in 3..Len(lines) : lines[j].k = "fence"
    THEN CHOOSE j \in 3..Len(lines) :
            /\ lines[j].k = "fence"
            /\ \A i \in 3..(j - 1) : lines[i].k # "fence"
    ELSE 0

\* The last index (from 0) of a line of kind k, or None.
LastIndexOf(lines, k) ==
    IF \E i \in 1..Len(lines) : lines[i].k = k
    THEN Some((CHOOSE i \in 1..Len(lines) :
                  /\ lines[i].k = k
                  /\ \A j \in (i + 1)..Len(lines) : lines[j].k # k) - 1)
    ELSE None

(***************************************************************************)
(* actions.rs mark_superseded: the rewrite of the old document.            *)
(***************************************************************************)
\* The loop that overwrites every Status and every Superseded-by line.
OverwriteSuperseded(lines, new_number) ==
    [i \in 1..Len(lines) |->
        IF lines[i].k = "Status" THEN StatusLine(SupersededByText(new_number))
        ELSE IF lines[i].k = "Superseded-by" THEN SupersededByLine(Pad4(new_number))
        ELSE lines[i]]

\* Status inserted when missing, then Superseded-by moved or inserted after
\* it; insert_at is where a missing Status goes.  idx_superseded_by is the
\* index found by the loop, before any insertion.
PlaceSupersededBy(lines0, new_number, insert_at) ==
    LET lines1 == OverwriteSuperseded(lines0, new_number)
        found_status == LastIndexOf(lines0, "Status")
        idx_superseded_by == LastIndexOf(lines0, "Superseded-by")
        lines2 == IF found_status = None
                  THEN InsertAt(lines1, insert_at, StatusLine(SupersededByText(new_number)))
                  ELSE lines1
        s_idx == IF found_status = None THEN insert_at ELSE Unwrap(found_status)
        desired == s_idx + 1
        sb_line == SupersededByLine(Pad4(new_number))
    IN  IF IsSome(idx_superseded_by)
        THEN LET sb_idx == Unwrap(idx_superseded_by)
             IN  IF sb_idx # desired
                 THEN InsertAt(RemoveAt(lines2, sb_idx),
                               IF sb_idx < desired THEN desired - 1 ELSE desired,
                               sb_line)
                 ELSE lines2
        ELSE InsertAt(lines2, s_idx + 1, sb_line)

MarkSupersededContent(contents, new_number) ==
    IF StartsWithFence(contents)
    THEN LET end == ClosingFence(contents)
         IN  IF end = 0 THEN contents
             ELSE LET rest == SubSeq(contents, end + 1, Len(contents))
                      lines == PlaceSupersededBy(rest, new_number, 0)
                      \* rest.starts_with('\n')
                      rest_starts_nl == rest # <<>> /\ rest[1].k = "blank"
                      gap == IF ~rest_starts_nl /\ lines[1].k # "blank"
                             THEN <<Blank>> ELSE <<>>
                  IN  SubSeq(contents, 1, end) \o gap \o JoinLines(lines)
    ELSE JoinLines(PlaceSupersededBy(contents, new_number,
                                     IF contents # <<>> THEN 1 ELSE 0))

(***************************************************************************)
(* actions.rs accept / reject: target lookup and the rewrite.              *)
(***************************************************************************)
\* Iterator::find over the listing: the least index (from 1) among the
\* matches, 0 when nothing matches.
FirstWith(hits) ==
    IF hits = {} THEN 0 ELSE CHOOSE i \in hits : \A j \in hits : i <= j
WithNumber(adrs, n) == {i \in 1..Len(adrs) : adrs[i].number = n}
WithTitleIgnoringCase(adrs, lower) ==
    {i \in 1..Len(adrs) : to_ascii_lowercase(adrs[i].title) = lower}

\* The lookup with titles compared as written, letter case and all.
ResolveTargetExactCase(adrs, id_or_title) ==
    LET n == parse_number(id_or_title)
    IN  IF IsSome(n) /\ \E i \in 1..Len(adrs) : adrs[i].number = Unwrap(n)
        THEN FirstWith(WithNumber(adrs, Unwrap(n)))
        ELSE FirstWith({i \in 1..Len(adrs) : adrs[i].title = trim(id_or_title)})

\* The index (from 1) in adrs of the record the argument names, 0 if none.
ResolveTarget(adrs, id_or_title) ==
    LET n == parse_number(id_or_title)
        lower == to_ascii_lowercase(trim(id_or_title))
    IN  IF IsSome(n) /\ \E i \in 1..Len(adrs) : adrs[i].number = Unwrap(n)
        THEN FirstWith(WithNumber(adrs, Unwrap(n)))
        ELSE FirstWith(WithTitleIgnoringCase(adrs, lower))

\* The loop overwriting the Date lines only.
OverwriteDateOnly(lines, status, now) ==
    [i \in 1..Len(lines) |->
        IF lines[i].k = "Date" THEN DateLine(now) ELSE lines[i]]

\* The loop that overwrites every Status and every Date line.
OverwriteStatusDate(lines, status, now) ==
    [i \in 1..Len(lines) |->
        IF lines[i].k = "Status" THEN StatusLine(status)
        ELSE IF lines[i].k = "Date" THEN DateLine(now)
        ELSE lines[i]]

HasKind(lines, k) == \E i \in 1..Len(lines) : lines[i].k = k

TransitionContent(content, status, now) ==
    IF StartsWithFence(content)
    THEN LET end == ClosingFence(content)
         IN  IF end = 0 THEN content
             ELSE LET rest == SubSeq(content, end + 1, Len(content))
                      l1 == OverwriteStatusDate(rest, status, now)
                      l2 == IF HasKind(rest, "Status") THEN l1
                            ELSE InsertAt(l1, 0, StatusLine(status))
                      l3 == IF HasKind(rest, "Date") THEN l2
                            ELSE InsertAt(l2, 0, DateLine(now))
                  IN  SubSeq(content, 1, end) \o l3
    ELSE LET l1 == OverwriteStatusDate(content, status, now)
             l2 == IF HasKind(content, "Status") THEN l1
                   ELSE InsertAt(l1, IF l1 # <<>> THEN 1 ELSE 0, StatusLine(status))
             l3 == IF HasKind(content, "Date") THEN l2
                   ELSE InsertAt(l2, 1, DateLine(now))
         IN  JoinLines(l3)

(***************************************************************************)
(* actions.rs write_index                                                  *)
(***************************************************************************)
\* by_number: the file name under each number; of two records with one
\* number the later insert stays.
ByNumber(adrs) ==
    [n \in {adrs[i].number : i \in 1..Len(adrs)} |->
        adrs[CHOOSE i \in 1..Len(adrs) :
                /\ adrs[i].number = n
                /\ \A j \in (i + 1)..Len(adrs) : adrs[j].number # n].path]

\* status_display of one index line.
StatusDisplay(a, by_number) ==
    IF IsSome(a.superseded_by)
    THEN LET n == Unwrap(a.superseded_by)
         IN  IF n \in DOMAIN by_number
             THEN [link |-> TRUE, num |-> Pad4(n), f |-> by_number[n]]
             ELSE [link |-> FALSE, text |-> SupersededByText(n)]
    ELSE [link |-> FALSE, text |-> a.status]

\* "- [<num>: <title>](<fname>) — Status: <status> — Date: <date>"
IndexEntry(a, by_number) ==
    [k |-> "entry", num |-> Pad4(a.number), title |-> a.title, fname |-> a.path,
     status |-> StatusDisplay(a, by_number), date |-> a.date]

IndexContent(adrs) ==
    <<Text("# Architecture Decision Records"), Blank>>
        \o [i \in 1..Len(adrs) |-> IndexEntry(adrs[i], ByNumber(adrs))]
        \o <<Blank>>

(***************************************************************************)
(* actions.rs create_new_adr: numbering and the three renderings.          *)
(***************************************************************************)
RECURSIVE MaxNumber(_)
MaxNumber(adrs) ==
    IF adrs = <<>> THEN 0
    ELSE LET m == MaxNumber(Tail(adrs))
         IN  IF Head(adrs).number > m THEN Head(adrs).number ELSE m
NextNumber(adrs) == MaxNumber(adrs) + 1

\* supersedes_display as a Supersedes line: a link when a record holds the
\* number, the padded number otherwise; the empty text for no supersedes.
SupersedesDisplay(adrs, supersedes) ==
    IF supersedes = None THEN SupersedesBare(<<>>)
    ELSE LET n == Unwrap(supersedes)
             i == FirstWith(WithNumber(adrs, n))
         IN  IF i # 0 THEN SupersedesLink(Pad4(n), adrs[i].path)
             ELSE SupersedesBare(Pad4(n))

\* The sections every document is created with.
BodySections ==
    <<Text("## Context"), Blank, Text("Describe the context and forces at play."), Blank,
      Text("## Decision"), Blank, Text("State the decision that was made and why."), Blank,
      Text("## Consequences"), Blank, Text("List the trade-offs and follow-ups.")>>

\* The templates at hand, after the five replace calls:
\*  "full"  "# ADR {{NUMBER}}: {{TITLE}}\n\nDate: {{DATE}}\nStatus: {{STATUS}}\nSupersedes: {{SUPERSEDES}}\n\nBody\n"
\*  "short" "# ADR {{NUMBER}}: {{TITLE}}\n\nDate: {{DATE}}\nStatus: {{STATUS}}\n\nTEMPLATE\n"
\*  "bare"  "# {{TITLE}}\n\nNotes\n"
TemplateNames == {"full", "short", "bare"}
FillTemplate(tpl, next, title, date, sup_line) ==
    CASE tpl = "full" ->
            <<Heading(Pad4(next), title), Blank, DateLine(date), StatusLine(Proposed),
              sup_line, Blank, Text("Body")>>
      [] tpl = "short" ->
            <<Heading(Pad4(next), title), Blank, DateLine(date), StatusLine(Proposed),
              Blank, Text("TEMPLATE")>>
      [] OTHER ->
            <<H1(title), Blank, Text("Notes")>>

CreateContent(c, adrs, next, title, date, supersedes) ==
    LET sup_line == SupersedesDisplay(adrs, supersedes)
        sup == IF supersedes = None THEN <<>> ELSE <<sup_line>>
    IN  IF c.template # "none"
        THEN FillTemplate(c.template, next, title, date, sup_line)
        ELSE IF c.front_matter
        THEN <<Fence, FmTitle(escape_yaml(title)), Fence, Blank,
               DateLine(date), StatusLine(Proposed)>> \o sup \o <<Blank>> \o BodySections
        ELSE <<Heading(Pad4(next), title), Blank,
               DateLine(date), StatusLine(Proposed)>> \o sup \o <<Blank>> \o BodySections

(***************************************************************************)
(* actions.rs reformat: body_after_meta, the rendering, the link patch.    *)
(***************************************************************************)
IsMeta(l) == l.k \in {"Title", "Date", "Status", "Supersedes", "Superseded-by"}

\* The while loop: the index (from 0) where the tail starts.
RECURSIVE SkipMeta(_, _)
SkipMeta(lines, i) ==
    IF i >= Len(lines) THEN i
    ELSE IF IsMeta(lines[i + 1]) THEN SkipMeta(lines, i + 1)
    ELSE IF lines[i + 1].k = "blank" THEN i + 1
    ELSE i

body_after_meta(raw) ==
    LET end == ClosingFence(raw)
        lines == IF end = 0 THEN raw ELSE SubSeq(raw, end + 1, Len(raw))
        i0 == IF lines # <<>> /\ lines[1].k = "heading"
              THEN (IF Len(lines) >= 2 /\ lines[2].k = "blank" THEN 2 ELSE 1)
              ELSE 0
        i == SkipMeta(lines, i0)
        tail == SubSeq(lines, i + 1, Len(lines))
    IN  \* a tail that joins to the empty text is dropped
        IF tail = <<Blank>> THEN <<>> ELSE tail

ReformatContent(c, target, by_number, original) ==
    LET sb == IF IsSome(target.superseded_by)
              THEN <<SupersededByLine(Pad4(Unwrap(target.superseded_by)))>>
              ELSE <<>>
        sup == IF IsSome(target.supersedes)
               THEN LET n == Unwrap(target.supersedes)
                    IN  IF n \in DOMAIN by_number
                        THEN <<SupersedesLink(Pad4(n), by_number[n])>>
                        ELSE <<SupersedesBare(Pad4(n))>>
               ELSE <<>>
        head == IF c.front_matter
                THEN <<Fence, FmTitle(escape_yaml(target.title)), Fence, Blank>>
                ELSE <<Heading(Pad4(target.number), target.title), Blank>>
    IN  head \o <<DateLine(target.date), StatusLine(target.status)>> \o sb \o sup
             \o <<Blank>> \o body_after_meta(original)

\* One document after the scan for "Supersedes: [<id>](...)" lines.
LinkPatched(lines, id, new_filename) ==
    [i \in 1..Len(lines) |->
        IF lines[i].k = "Supersedes" /\ lines[i].link /\ ParseU32(lines[i].num) = Some(id)
        THEN SupersedesLink(Pad4(id), new_filename)
        ELSE lines[i]]
LinkChanged(lines, id) ==
    \E i \in 1..Len(lines) :
        lines[i].k = "Supersedes" /\ lines[i].link /\ ParseU32(lines[i].num) = Some(id)

(***************************************************************************)
(* The operations of actions.rs on a directory d = [files, index,          *)
(* dirExists]; each gives the directory afterwards, the result (res) and   *)
(* the record returned (ret).                                              *)
(***************************************************************************)
Outcome(fs, idx, exists, res, ret) ==
    [files |-> fs, index |-> idx, dirExists |-> exists, res |-> res, ret |-> ret]
Failed(d, res) == Outcome(d.files, d.index, d.dirExists, res, None)

\* fs.rs write_string and std::fs::remove_file
write_string(fs, f, content) == (f :> content) @@ fs
remove_file(fs, f) == [g \in DOMAIN fs \ {f} |-> fs[g]]

\* "refresh index and return updated meta": the index from the new listing and
\* the record that holds the number, an error when none does.
Refreshed(fs, adrs2, number) ==
    LET j == FirstWith(WithNumber(adrs2, number))
    IN  Outcome(fs, IndexContent(adrs2), TRUE,
                IF j = 0 THEN "lost" ELSE "ok",
                IF j = 0 THEN None ELSE Some(adrs2[j]))

\* create_new_adr rendering the built-in document when the template cannot be
\* read.
create_numbered_fallback(d, c, now, title, supersedes, adrs) ==
    LET next == NextNumber(adrs)
        meta == [number |-> next, title |-> title, status |-> Proposed, date |-> now,
                 supersedes |-> supersedes, superseded_by |-> None,
                 path |-> FileName(next, slugify(title), c.format)]
        builtin == IF c.template = "missing" THEN [c EXCEPT !.template = "none"] ELSE c
    IN  Outcome(write_string(d.files, meta.path,
                             CreateContent(builtin, adrs, next, title, now, supersedes)),
                IndexContent(Append(adrs, meta)), TRUE, "ok", Some(meta))

\* create_new_adr listing the directory again before it numbers and writes.
create_numbered_relisting(d, c, now, title, supersedes, adrs) ==
    LET again == list(d.files, d.dirExists, now)
        next == NextNumber(again)
        meta == [number |-> next, title |-> title, status |-> Proposed, date |-> now,
                 supersedes |-> supersedes, superseded_by |-> None,
                 path |-> FileName(next, slugify(title), c.format)]
    IN  IF c.template = "missing" THEN Failed(d, "template_error")
        ELSE Outcome(write_string(d.files, meta.path,
                                  CreateContent(c, again, next, title, now, supersedes)),
                     IndexContent(Append(again, meta)), TRUE, "ok", Some(meta))

\* create_new_adr after the listing: number, file name, content, write, index.
create_numbered(d, c, now, title, supersedes, adrs) ==
    LET next == NextNumber(adrs)
        meta == [number |-> next, title |-> title, status |-> Proposed, date |-> now,
                 supersedes |-> supersedes, superseded_by |-> None,
                 path |-> FileName(next, slugify(title), c.format)]
    IN  IF c.template = "missing" THEN Failed(d, "template_error")
        ELSE Outcome(write_string(d.files, meta.path,
                                  CreateContent(c, adrs, next, title, now, supersedes)),
                     IndexContent(Append(adrs, meta)), TRUE, "ok", Some(meta))

create_new_adr(d, c, now, title, supersedes) ==
    create_numbered(d, c, now, title, supersedes, list(d.files, d.dirExists, now))

\* mark_superseded once the file is rewritten: the index from a new listing.
superseded_refresh(fs2, now) ==
    Outcome(fs2, IndexContent(list(fs2, TRUE, now)), TRUE, "ok", None)

\* mark_superseded refreshing the index before it looks the record up.
superseded_found_refreshing(d, now, old_number, new_number, adrs) ==
    LET i == FirstWith(WithNumber(adrs, old_number))
    IN  IF i = 0
        THEN Outcome(d.files, IndexContent(adrs), TRUE, "not_found", None)
        ELSE superseded_refresh(
                 write_string(d.files, adrs[i].path,
                              MarkSupersededContent(d.files[adrs[i].path], new_number)),
                 now)

\* mark_superseded after the listing.
superseded_found(d, now, old_number, new_number, adrs) ==
    LET i == FirstWith(WithNumber(adrs, old_number))
    IN  IF i = 0 THEN Failed(d, "not_found")
        ELSE superseded_refresh(
                 write_string(d.files, adrs[i].path,
                              MarkSupersededContent(d.files[adrs[i].path], new_number)),
                 now)

\* mark_superseded writing the back link into the superseding record as well.
mark_superseded_linking(d, now, old_number, new_number) ==
    LET adrs == list(d.files, d.dirExists, now)
        out == superseded_found(d, now, old_number, new_number, adrs)
        j == FirstWith(WithNumber(adrs, new_number))
    IN  IF out.res # "ok" \/ j = 0 THEN out
        ELSE [out EXCEPT !.files =
                 write_string(out.files, adrs[j].path,
                              Append(out.files[adrs[j].path],
                                     SupersedesBare(Pad4(old_number))))]

mark_superseded(d, now, old_number, new_number) ==
    superseded_found(d, now, old_number, new_number, list(d.files, d.dirExists, now))

\* accept / reject once the file is rewritten.
transition_refresh(fs2, now, number) == Refreshed(fs2, list(fs2, TRUE, now), number)

\* accept / reject after the listing.
transition_found(d, now, id_or_title, status, adrs) ==
    LET i == ResolveTarget(adrs, id_or_title)
    IN  IF i = 0 THEN Failed(d, "not_found")
        ELSE transition_refresh(
                 write_string(d.files, adrs[i].path,
                              TransitionContent(d.files[adrs[i].path], status, now)),
                 now, adrs[i].number)

accept(d, now, id_or_title) ==
    transition_found(d, now, id_or_title, Accepted, list(d.files, d.dirExists, now))
reject(d, now, id_or_title) ==
    transition_found(d, now, id_or_title, Rejected, list(d.files, d.dirExists, now))

\* reformat, last part: the index from a new listing, the record returned.
reformat_refresh(fs3, now, id) == Refreshed(fs3, list(fs3, TRUE, now), id)

\* reformat, the scan of the other records for links to the renamed file.
reformat_patch(fs2, adrs_scan, id, new_path) ==
    LET scanned == {adrs_scan[k].path : k \in {m \in 1..Len(adrs_scan) :
                                                 adrs_scan[m].number # id}}
    IN  [f \in DOMAIN fs2 |->
            IF f \in scanned /\ LinkChanged(fs2[f], id)
            THEN JoinLines(LinkPatched(fs2[f], id, new_path))
            ELSE fs2[f]]

\* reformat, the write of the new file and the removal of the old one.
reformat_move(fs, old_path, new_path, new_content) ==
    IF new_path # old_path
    THEN remove_file(write_string(fs, new_path, new_content), old_path)
    ELSE write_string(fs, new_path, new_content)

reformat_scan(fs2, now, id, new_path) ==
    reformat_refresh(reformat_patch(fs2, list(fs2, TRUE, now), id, new_path), now, id)

\* reformat of the record found.
reformat_target(d, c, now, target, by_number) ==
    reformat_scan(
        reformat_move(d.files, target.path,
                      FileName(target.number, slugify(target.title), c.format),
                      ReformatContent(c, target, by_number, d.files[target.path])),
        now, target.number,
        FileName(target.number, slugify(target.title), c.format))

\* reformat after the listing.
reformat_found(d, c, now, id, adrs) ==
    LET i == FirstWith(WithNumber(adrs, id))
    IN  IF i = 0 THEN Failed(d, "not_found")
        ELSE reformat_target(d, c, now, adrs[i], ByNumber(adrs))

reformat(d, c, now, id) ==
    reformat_found(d, c, now, id, list(d.files, d.dirExists, now))

list_and_index(d, now) ==
    Outcome(d.files, IndexContent(list(d.files, d.dirExists, now)), TRUE, "ok", None)

(***************************************************************************)
(* The operations cut short.  A call ends early either because one of its  *)
(* file-system steps returns Err (the steps of FaultSteps, named after what *)
(* fails) or because the process stops between two of its writes (the      *)
(* points of CrashPoints, named after the write made last).  res is         *)
(* "io_error" when the call returns the Err, "stopped" when the process     *)
(* stopped, "unmet" when the call never comes to the step.                  *)
(***************************************************************************)
FaultSteps == {"list", "read", "write", "remove", "scan", "index"}
CrashPoints == {"crash_written", "crash_removed", "crash_half", "crash_scanned"}

\* How a call that ends at `at` ends.
Ended(at) == IF at \in FaultSteps THEN "io_error" ELSE "stopped"

\* reformat of the record found, ending at `at`: written is the directory
\* once the new file is written, moved once the old one is removed, scan the
\* listing the link patch walks.  The Result of remove_file is dropped, and
\* the call goes on with the old file in place.
reformat_ending_at(d, now, id, old_path, new_path, written, moved, scan, at) ==
    CASE at \in {"read", "write"} -> Failed(d, "io_error")
      [] at = "remove" ->
            IF new_path = old_path THEN Failed(d, "unmet")
            ELSE reformat_scan(written, now, id, new_path)
      [] at = "crash_written" -> Outcome(written, d.index, TRUE, "stopped", None)
      [] at \in {"scan", "crash_removed"} ->
            Outcome(moved, d.index, TRUE, Ended(at), None)
      [] at = "crash_half" ->
            Outcome(reformat_patch(moved, SubSeq(scan, 1, Len(scan) \div 2), id, new_path),
                    d.index, TRUE, "stopped", None)
      [] OTHER ->
            Outcome(reformat_patch(moved, scan, id, new_path),
                    d.index, TRUE, Ended(at), None)

\* reformat removing the old file where it should write the new one.
reformat_removed_first(fs, old_path, new_path, new_content) ==
    IF new_path # old_path THEN remove_file(fs, old_path)
    ELSE write_string(fs, new_path, new_content)

\* reformat, the write of the new file, the old one still in place.
reformat_written(fs, old_path, new_path, new_content) ==
    write_string(fs, new_path, new_content)

reformat_ending_moved(d, now, id, old_path, new_path, written, moved, at) ==
    reformat_ending_at(d, now, id, old_path, new_path, written, moved,
                       list(moved, TRUE, now), at)

reformat_ending_target(d, c, now, target, by_number, at) ==
    reformat_ending_moved(
        d, now, target.number, target.path,
        FileName(target.number, slugify(target.title), c.format),
        reformat_written(d.files, target.path,
                         FileName(target.number, slugify(target.title), c.format),
                         ReformatContent(c, target, by_number, d.files[target.path])),
        reformat_move(d.files, target.path,
                      FileName(target.number, slugify(target.title), c.format),
                      ReformatContent(c, target, by_number, d.files[target.path])),
        at)

reformat_ending_found(d, c, now, id, adrs, at) ==
    LET i == FirstWith(WithNumber(adrs, id))
    IN  IF at = "list" THEN Failed(d, "io_error")
        ELSE IF i = 0 THEN Failed(d, "unmet")
        ELSE reformat_ending_target(d, c, now, adrs[i], ByNumber(adrs), at)

reformat_ending(d, c, now, id, at) ==
    reformat_ending_found(d, c, now, id, list(d.files, d.dirExists, now), at)

\* mark_superseded ending at `at`: its one document write, then the index.
SupersedeSteps == {"list", "read", "write", "index", "crash_written"}
superseded_ending_found(d, now, old_number, new_number, adrs, at) ==
    LET i == FirstWith(WithNumber(adrs, old_number))
    IN  IF at = "list" THEN Failed(d, "io_error")
        ELSE IF i = 0 \/ at \notin SupersedeSteps
        THEN Failed(d, "unmet")
        ELSE IF at \in {"read", "write"} THEN Failed(d, "io_error")
        ELSE Outcome(write_string(d.files, adrs[i].path,
                                  MarkSupersededContent(d.files[adrs[i].path], new_number)),
                     d.index, TRUE, Ended(at), None)

superseded_ending(d, now, old_number, new_number, at) ==
    superseded_ending_found(d, now, old_number, new_number,
                            list(d.files, d.dirExists, now), at)

(***************************************************************************)
(* main.rs: the supersede command with the functions main.rs defines for   *)
(* it.  They write plain "md" documents and an index without links.        *)
(***************************************************************************)
\* write_index of main.rs: the status as listed, never a link.
main_write_index(adrs) ==
    <<Text("# Architecture Decision Records"), Blank>>
        \o [i \in 1..Len(adrs) |->
               [k |-> "entry", num |-> Pad4(adrs[i].number), title |-> adrs[i].title,
                fname |-> adrs[i].path,
                status |-> [link |-> FALSE, text |-> adrs[i].status],
                date |-> adrs[i].date]]
        \o <<Blank>>

\* The content create_new_adr of main.rs writes: the template with the five
\* replace calls, or the built-in header and sections.
main_content(c, next, title, date, status, supersedes) ==
    LET num == IF supersedes = None THEN <<>> ELSE Pad4(Unwrap(supersedes))
    IN  CASE c.template = "none" ->
                <<Heading(Pad4(next), title), Blank, DateLine(date), StatusLine(status)>>
                    \o (IF supersedes = None THEN <<>> ELSE <<SupersedesBare(num)>>)
                    \o <<Blank>> \o BodySections
          [] c.template = "full" ->
                <<Heading(Pad4(next), title), Blank, DateLine(date), StatusLine(status),
                  SupersedesBare(num), Blank, Text("Body")>>
          [] c.template = "short" ->
                <<Heading(Pad4(next), title), Blank, DateLine(date), StatusLine(status),
                  Blank, Text("TEMPLATE")>>
          [] OTHER ->
                <<H1(title), Blank, Text("Notes")>>

\* create_new_adr of main.rs after read_all_adrs.
main_create_numbered(d, c, now, title, status, supersedes, adrs) ==
    LET next == NextNumber(adrs)
        meta == [number |-> next, title |-> title, status |-> status, date |-> now,
                 supersedes |-> supersedes, superseded_by |-> None,
                 path |-> FileName(next, slugify(title), "md")]
    IN  IF c.template = "missing" THEN Failed(d, "cmd_error")
        ELSE Outcome(write_string(d.files, meta.path,
                                  main_content(c, next, title, now, status, supersedes)),
                     main_write_index(Append(adrs, meta)), TRUE, "ok", Some(meta))

main_create_new_adr(d, c, now, title, status, supersedes) ==
    main_create_numbered(d, c, now, title, status, supersedes, list(d.files, TRUE, now))

\* The directory entries mark_superseded of main.rs may stop at: extension
\* "md", the number in the file name.
main_targets(fs, old_number) ==
    {f \in DOMAIN fs : f.ext = "md" /\ number_from_filename(f) = Some(old_number)}

\* position(|l| l.trim().is_empty()).unwrap_or(lines.len())
main_first_blank(lines) ==
    IF \E i \in 1..Len(lines) : lines[i].k = "blank"
    THEN (CHOOSE i \in 1..Len(lines) :
             lines[i].k = "blank" /\ \A j \in 1..(i - 1) : lines[j].k # "blank") - 1
    ELSE Len(lines)

\* The rewrite in mark_superseded of main.rs.
main_with_status(lines0, new_number) ==
    IF HasKind(lines0, "Status") THEN OverwriteSuperseded(lines0, new_number)
    ELSE InsertAt(OverwriteSuperseded(lines0, new_number), 1,
                  StatusLine(SupersededByText(new_number)))
main_with_superseded_by(lines0, lines2, new_number) ==
    IF HasKind(lines0, "Superseded-by") THEN lines2
    ELSE InsertAt(lines2, main_first_blank(lines2), SupersededByLine(Pad4(new_number)))
main_marked_content(lines0, new_number) ==
    main_with_superseded_by(lines0, main_with_status(lines0, new_number), new_number)

\* mark_superseded of main.rs, then the index from read_all_adrs; f is the
\* directory entry the search stopped at, None when it found none.
main_marked(fs2, now, new_meta) ==
    Outcome(fs2, main_write_index(list(fs2, TRUE, now)), TRUE, "ok", Some(new_meta))
main_mark_superseded(created, now, f, new_meta) ==
    IF f = None THEN Outcome(created.files, created.index, TRUE, "cmd_error", None)
    ELSE main_marked(write_string(created.files, Unwrap(f),
                                  main_marked_content(created.files[Unwrap(f)],
                                                      new_meta.number)),
                     now, new_meta)

\* Commands::Supersede once the new document is created.
main_supersede_created(created, now, f) ==
    IF created.res # "ok" THEN Outcome(created.files, created.index, TRUE, "cmd_error", None)
    ELSE main_mark_superseded(created, now, f, Unwrap(created.ret))

\* main with Commands::Supersede { id, title }: the directory is created, the
\* id parsed, the new document created as Accepted (created), the old one
\* marked.
main_supersede(created, now, id, f) ==
    IF parse_number(id) = None
    THEN Outcome(created.files, created.index, TRUE, "cmd_error", None)
    ELSE main_supersede_created(created, now, f)

\* The entries the search of mark_superseded can stop at after the create.
main_picks(created, id) ==
    IF parse_number(id) = None \/ created.res # "ok"
          \/ main_targets(created.files, Unwrap(parse_number(id))) = {}
    THEN {None}
    ELSE {Some(f) : f \in main_targets(created.files, Unwrap(parse_number(id)))}

(***************************************************************************)
(* Configurations, directories the program starts from, inputs.            *)
(***************************************************************************)
Cfg(format, front_matter, template) ==
    [format |-> format, front_matter |-> front_matter, template |-> template]
DefaultCfg == Cfg("md", FALSE, "none")
FrontMatterCfg == Cfg("md", TRUE, "none")
MdxCfg == Cfg("mdx", TRUE, "none")
TemplateCfgs == {Cfg("md", FALSE, t) : t \in TemplateNames \cup {"missing"}}
Configs == {DefaultCfg, FrontMatterCfg, MdxCfg} \cup TemplateCfgs

T_aB == <<"a", "B">>
T_AB == <<"A", "B">>
T_Cd == <<"C", " ", "d">>
T_2 == <<"2">>
T_Old == <<"O", "l", "d">>
T_Existing == <<"E", "x", "i", "s", "t", "i", "n", "g">>
Slug_old == <<"o", "l", "d">>
Slug_existing == <<"e", "x", "i", "s", "t", "i", "n", "g">>
Slug_no_status == <<"n", "o", "-", "s", "t", "a", "t", "u", "s">>

NoFiles == [f \in {} |-> <<>>]
Directory(fs, idx, exists) == [files |-> fs, index |-> idx, dirExists |-> exists]

\* The directory an operation left.
Left(out) == Directory(out.files, out.index, out.dirExists)

\* No document directory yet.
NoDirectory == Directory(NoFiles, <<>>, FALSE)
\* "# ADR 0005: Existing\n\nBody\n"
SeedGap ==
    Directory(FileName(5, Slug_existing, "md")
                  :> <<Heading(Pad4(5), T_Existing), Blank, Text("Body")>>,
              <<>>, TRUE)
\* "# ADR 0001: Old\n\nContext\n": neither Status nor Superseded-by
SeedOld ==
    Directory(FileName(1, Slug_old, "md")
                  :> <<Heading(Pad4(1), T_Old), Blank, Text("Context")>>,
              <<>>, TRUE)
\* README.md and "# minimal file\n\nBody\n"
SeedFallback ==
    Directory([stem |-> <<"R", "E", "A", "D", "M", "E">>, ext |-> "md"] :> <<Text("hello")>>
                  @@ FileName(7, Slug_no_status, "md")
                        :> <<Text("# minimal file"), Blank, Text("Body")>>,
              <<>>, TRUE)
\* Superseded-by above Status
SeedAbove ==
    Directory(FileName(1, Slug_old, "md")
                  :> <<Heading(Pad4(1), T_Old), Blank, SupersededByLine(Pad4(9)),
                       DateLine(DateText(1)), StatusLine(Accepted), Blank, Text("Context")>>,
              <<>>, TRUE)
\* Superseded-by further below Status
SeedBelow ==
    Directory(FileName(1, Slug_old, "md")
                  :> <<Heading(Pad4(1), T_Old), Blank, StatusLine(Accepted),
                       DateLine(DateText(1)), Blank, Text("Context"),
                       SupersededByLine(Pad4(9))>>,
              <<>>, TRUE)
\* Superseded-by present, Status absent
SeedNoStatus ==
    Directory(FileName(1, Slug_old, "md")
                  :> <<Heading(Pad4(1), T_Old), Blank, SupersededByLine(Pad4(9)),
                       Blank, Text("Context")>>,
              <<>>, TRUE)
\* Superseded-by on the line after the heading, Status absent
SeedTight ==
    Directory(FileName(1, Slug_old, "md")
                  :> <<Heading(Pad4(1), T_Old), SupersededByLine(Pad4(9)),
                       Blank, Text("Context")>>,
              <<>>, TRUE)
\* Date and Superseded-by present, Status absent
SeedDated ==
    Directory(FileName(1, Slug_old, "md")
                  :> <<Heading(Pad4(1), T_Old), Blank, DateLine(DateText(1)),
                       SupersededByLine(Pad4(9)), Blank, Text("Context")>>,
              <<>>, TRUE)
\* 0002-2.md under the heading "# ADR 0001: Old": the number of the heading
\* is not the one of the file name
SeedRenumbered ==
    Directory(FileName(2, T_2, "md")
                  :> <<Heading(Pad4(1), T_Old), Blank, Text("Context")>>,
              <<>>, TRUE)
\* A document that ends with an empty line
SeedTrailing ==
    Directory(FileName(1, Slug_old, "md")
                  :> <<Heading(Pad4(1), T_Old), Blank, DateLine(DateText(1)),
                       StatusLine(Proposed), Blank, Text("Context"), Blank>>,
              <<>>, TRUE)
\* Two documents the program made on day 1 with the default configuration:
\* new "aB", then new "C d" superseding 1.
SeedPair ==
    Left(create_new_adr(
             Left(create_new_adr(NoDirectory, DefaultCfg, DateText(1), T_aB, None)),
             DefaultCfg, DateText(1), T_Cd, Some(1)))
\* The pair with the first title edited by hand from "Old" to "aB".
Retitled(d, f, title) ==
    Directory([d.files EXCEPT ![f] = [@ EXCEPT ![1] = Heading(Pad4(1), title)]],
              d.index, d.dirExists)
SeedRetitled ==
    Retitled(Left(create_new_adr(
                      Left(create_new_adr(NoDirectory, DefaultCfg, DateText(1), T_Old, None)),
                      DefaultCfg, DateText(1), T_Cd, Some(1))),
             FileName(1, Slug_old, "md"), T_aB)

SeedDirs == {NoDirectory, SeedGap, SeedOld, SeedFallback, SeedPair, SeedRetitled}
\* The starts: the directories a Create or a Reformat is told apart by under
\* the three built-in renderings, the template configurations on two of
\* them, and the directories made for the edits in place, which do not read
\* the configuration, under the default one.
Starts ==
    (SeedDirs \X {DefaultCfg, FrontMatterCfg, MdxCfg})
        \cup ({NoDirectory, SeedPair} \X TemplateCfgs)
        \cup ({SeedAbove, SeedBelow, SeedNoStatus, SeedTight, SeedTrailing,
               SeedDated, SeedRenumbered} \X {DefaultCfg})

Titles == {T_aB, T_2}
SupersedesArgs == {None, Some(1)}
SupersedePairs == {<<1, 2>>, <<1, 3>>}
ReformatIds == {1, 2}
AcceptArgs == {<<"0", "0", "0", "1">>, T_AB, T_2}
RejectArgs == {<<"1">>, <<" ", "o", "l", "d">>}
CommandIds == {<<"1">>}
CommandTitles == {T_2}
\* The processes that call create_new_adr on one directory at the same time.
Callers == {"first", "second"}

(***************************************************************************)
(* The state machine.                                                      *)
(***************************************************************************)
Now == DateText(today)
Here == Directory(files, index, dirExists)

Init ==
    /\ \E s \in Starts :
          /\ files = s[1].files
          /\ index = s[1].index
          /\ dirExists = s[1].dirExists
          /\ cfg = s[2]
          /\ pre = s[1]
    /\ today = 2
    /\ last = [op |-> "init", res |-> "ok", ret |-> None]
    /\ steps = 0
    /\ calls = [p \in Callers |-> [at |-> "idle"]]

\* The directory becomes what the operation left; pre keeps what it found.
Becomes(out, call) ==
    /\ steps < MaxOps
    /\ files' = out.files
    /\ index' = out.index
    /\ dirExists' = out.dirExists
    /\ last' = call @@ [res |-> out.res, ret |-> out.ret]
    /\ pre' = Here
    /\ steps' = steps + 1
    /\ UNCHANGED <<cfg, today, calls>>

Create(title, supersedes) ==
    Becomes(create_new_adr(Here, cfg, Now, title, supersedes),
            [op |-> "create", title |-> title, supersedes |-> supersedes])

Supersede(old_number, new_number) ==
    Becomes(mark_superseded(Here, Now, old_number, new_number),
            [op |-> "supersede", old |-> old_number, new |-> new_number])

Reformat(id) ==
    Becomes(reformat(Here, cfg, Now, id), [op |-> "reformat", id |-> id])

Accept(id_or_title) ==
    Becomes(accept(Here, Now, id_or_title),
            [op |-> "transition", arg |-> id_or_title, status |-> Accepted])

Reject(id_or_title) ==
    Becomes(reject(Here, Now, id_or_title),
            [op |-> "transition", arg |-> id_or_title, status |-> Rejected])

ListAndIndex ==
    Becomes(list_and_index(Here, Now), [op |-> "list"])

\* The command after its create: the search picks its directory entry.
SupersedeCommandFrom(created, id, title) ==
    \E f \in main_picks(created, id) :
        Becomes(main_supersede(created, Now, id, f),
                [op |-> "command", id |-> id, title |-> title])

SupersedeCommand(id, title) ==
    SupersedeCommandFrom(
        IF parse_number(id) = None THEN Failed(Here, "cmd_error")
        ELSE main_create_new_adr(Here, cfg, Now, title, Accepted, parse_number(id)),
        id, title)

\* A reformat or a mark_superseded cut short.  What it leaves is examined as
\* it stands: the calls explored are those made before it.
Running == last.op \notin {"reformat_cut", "supersede_cut"}

CutShort(out, call) ==
    /\ Running
    /\ out.res # "unmet"
    /\ Becomes(out, call)

ReformatEnds(id, at) ==
    CutShort(reformat_ending(Here, cfg, Now, id, at),
             [op |-> "reformat_cut", id |-> id, at |-> at])

SupersedeEnds(old_number, new_number, at) ==
    CutShort(superseded_ending(Here, Now, old_number, new_number, at),
             [op |-> "supersede_cut", old |-> old_number, new |-> new_number, at |-> at])

\* create_new_adr called by two processes, each call in its three file-system
\* steps: the listing, the write of the document, the write of the index.
\* calls[p] keeps what call p holds between its steps: its arguments, the
\* listing it took (adrs), and the files that listing was taken from (found).
CreateLists(p, title, supersedes) ==
    /\ calls[p].at = "idle"
    /\ calls' = [calls EXCEPT ![p] = [at |-> "listed", title |-> title,
                                      supersedes |-> supersedes,
                                      adrs |-> list(files, dirExists, Now),
                                      found |-> files]]
    /\ UNCHANGED <<files, index, dirExists, cfg, today, last, pre, steps>>

CreateWritesOut(p, out) ==
    /\ calls[p].at = "listed"
    /\ files' = out.files
    /\ dirExists' = out.dirExists
    /\ calls' = [calls EXCEPT ![p].at = IF out.res = "ok" THEN "written" ELSE "failed"]
    /\ UNCHANGED <<index, cfg, today, last, pre, steps>>

CreateWrites(p) ==
    /\ calls[p].at = "listed"
    /\ CreateWritesOut(p, create_numbered(Here, cfg, Now, calls[p].title,
                                          calls[p].supersedes, calls[p].adrs))

CreateIndexesOut(p, out) ==
    /\ calls[p].at = "written"
    /\ index' = out.index
    /\ calls' = [calls EXCEPT ![p] = [@ EXCEPT !.at = "done"] @@ [ret |-> out.ret]]
    /\ UNCHANGED <<files, dirExists, cfg, today, last, pre, steps>>

CreateIndexes(p) ==
    /\ calls[p].at = "written"
    /\ CreateIndexesOut(p, create_numbered(Here, cfg, Now, calls[p].title,
                                           calls[p].supersedes, calls[p].adrs))

\* Midnight passes.
Tick ==
    /\ steps < MaxOps
    /\ today' = today + 1
    /\ last' = [op |-> "tick", res |-> "ok", ret |-> None]
    /\ pre' = Here
    /\ steps' = steps + 1
    /\ UNCHANGED <<files, index, dirExists, cfg, calls>>

Next ==
    \/ \E t \in Titles, s \in SupersedesArgs : Create(t, s)
    \/ \E p \in SupersedePairs : Supersede(p[1], p[2])
    \/ \E n \in ReformatIds : Reformat(n)
    \/ \E x \in AcceptArgs : Accept(x)
    \/ \E x \in RejectArgs : Reject(x)
    \/ ListAndIndex
    \/ \E x \in CommandIds, t \in CommandTitles : SupersedeCommand(x, t)
    \/ Tick

Spec == Init /\ [][Next]_vars

\* The calls cut short, after the calls that make the directories they run in.
CutNext ==
    \/ Running /\ \E t \in Titles, s \in SupersedesArgs \ {None} : Create(t, s)
    \/ Running /\ \E p \in SupersedePairs : Supersede(p[1], p[2])
    \/ \E n \in ReformatIds, at \in FaultSteps \cup CrashPoints : ReformatEnds(n, at)
    \/ \E p \in SupersedePairs, at \in SupersedeSteps : SupersedeEnds(p[1], p[2], at)

CutSpec == Init /\ [][CutNext]_vars

\* Two calls of create_new_adr, their steps interleaved in every order.
RaceNext ==
    \/ \E p \in Callers, t \in Titles, s \in SupersedesArgs : CreateLists(p, t, s)
    \/ \E p \in Callers : CreateWrites(p)
    \/ \E p \in Callers : CreateIndexes(p)

RaceSpec == Init /\ [][RaceNext]_vars

(***************************************************************************)
(* Properties.  The collection is every document of the directory,         *)
(* whatever its extension; Listing is what list() returns now, PreListing  *)
(* what it returned to the operation that ran last.                        *)
(***************************************************************************)
IsDocument(f) == f.ext \in {"md", "mdx"} /\ IsSome(number_from_filename(f))
Records(fs, now) ==
    {parse_adr_file(f, fs[f], now) : f \in {g \in DOMAIN fs : IsDocument(g)}}
Listing == list(files, dirExists, Now)
PreListing == list(pre.files, pre.dirExists, Now)
Created == last.op = "create" /\ last.res = "ok"
Superseded == last.op = "supersede" /\ last.res = "ok"
Transitioned == last.op = "transition" /\ last.res = "ok"
Reformatted == last.op = "reformat" /\ last.res = "ok"
IndexWritten == last.op \in {"create", "supersede", "transition", "reformat", "list"}
                    /\ last.res \in {"ok", "lost"}

\* C1: a Create is given a number above the number of every Record the
\* collection held before the call, so numbers only grow and none is reused.
C1_NumberAboveCollection ==
    Created => \A r \in Records(pre.files, Now) : r.number < Unwrap(last.ret).number

\* C2: after a successful Supersede(a, b), list() returns Record a with the
\* status text "Superseded by <b:04>" and superseded_by = b.
C2_Shown(adrs) ==
    \E i \in 1..Len(adrs) :
        /\ adrs[i].number = last.old
        /\ adrs[i].status = SupersededByText(last.new)
        /\ adrs[i].superseded_by = Some(last.new)
C2_SupersededListed == Superseded => C2_Shown(Listing)

\* C3: after a successful Supersede(a, b), the file of a holds the line
\* "Superseded-by: <b>" directly after the line "Status: Superseded by <b>",
\* and nowhere else.
C3_Adjacent(lines, n) ==
    /\ \E i \in 1..Len(lines) : lines[i].k = "Superseded-by"
    /\ \A i \in 1..Len(lines) :
          lines[i].k = "Superseded-by" =>
              /\ lines[i] = SupersededByLine(Pad4(n))
              /\ i > 1
              /\ lines[i - 1] = StatusLine(SupersededByText(n))
C3_FileOf(adrs) == adrs[FirstWith(WithNumber(adrs, last.old))].path
C3_SupersededByAfterStatus ==
    Superseded => C3_Adjacent(files[C3_FileOf(PreListing)], last.new)

\* C4: a second Reformat(n) under the same configuration leaves the file of
\* n as the first Reformat(n) wrote it.
C4_Same(again) ==
    /\ again.res = "ok"
    /\ Unwrap(again.ret).path = Unwrap(last.ret).path
    /\ again.files[Unwrap(last.ret).path] = files[Unwrap(last.ret).path]
C4_ReformatIdempotent ==
    Reformatted => C4_Same(reformat(Here, cfg, Now, last.id))

\* C5: when Reformat(n) has renamed the file of n, every other file is as it
\* was, but for the links "Supersedes: [n](old name)", which name the new file.
C5_LinkTo(l, f) == l.k = "Supersedes" /\ l.link /\ l.f = f
C5_Follows(old) ==
    old \notin DOMAIN files =>
        \E new \in DOMAIN files \ DOMAIN pre.files :
            \A g \in DOMAIN pre.files \ {old} :
                /\ g \in DOMAIN files
                /\ Len(files[g]) = Len(pre.files[g])
                /\ \A i \in 1..Len(files[g]) :
                      files[g][i] = IF C5_LinkTo(pre.files[g][i], old)
                                    THEN [pre.files[g][i] EXCEPT !.f = new]
                                    ELSE pre.files[g][i]
C5_Target(adrs) == adrs[FirstWith(WithNumber(adrs, last.id))].path
C5_LinksFollowRename ==
    (last.op = "reformat" /\ last.res # "not_found") => C5_Follows(C5_Target(PreListing))

\* C6: in the index just written, the line of every Record a with
\* superseded_by = b shows a link to the file Record b has now, and the bare
\* number when the collection holds no Record b.
C6_Entry(a, all) ==
    \E i \in 1..Len(index) :
        /\ index[i].k = "entry"
        /\ index[i].fname = a.path
        /\ IF \E rb \in all : rb.number = Unwrap(a.superseded_by)
           THEN \E rb \in all :
                   /\ rb.number = Unwrap(a.superseded_by)
                   /\ index[i].status = [link |-> TRUE, num |-> Pad4(rb.number),
                                         f |-> rb.path]
           ELSE index[i].status = [link |-> FALSE,
                                   text |-> SupersededByText(Unwrap(a.superseded_by))]
C6_All(all) == \A a \in all : IsSome(a.superseded_by) => C6_Entry(a, all)
C6_IndexLinksCurrent == IndexWritten => C6_All(Records(files, Now))

\* C7 as first stated: each Record is what its padded number, its unpadded
\* number and its title in any letter case resolve to, a title that reads as
\* the number of a Record being taken as that number.
C7_Upper(t) == [i \in 1..Len(t) |-> char_to_ascii_uppercase(t[i])]
C7_NumberForms(n) == {Pad4(n), Decimal(n)}
C7_TitleForms(t) == {t, to_ascii_lowercase(t), C7_Upper(t)}
C7_IsNumberOf(adrs, x) ==
    IsSome(parse_number(x)) /\ \E j \in 1..Len(adrs) : adrs[j].number = Unwrap(parse_number(x))
C7_Forms(adrs) ==
    \A i \in 1..Len(adrs) :
        /\ \A x \in C7_NumberForms(adrs[i].number) : ResolveTarget(adrs, x) = i
        /\ \A x \in C7_TitleForms(adrs[i].title) :
              ~C7_IsNumberOf(adrs, x) => ResolveTarget(adrs, x) = i
C7_EveryFormResolves == C7_Forms(Listing)

\* C7, amended: the padded and the unpadded number of a Record resolve to it;
\* its title in any ASCII letter case resolves to it provided the title does
\* not read as the number of a Record and no Record listed before it has the
\* same title up to ASCII letter case; an argument that reads as the number of
\* a Record selects that Record, and is looked up as a title only otherwise.
C7_FirstTitled(adrs, i) ==
    \A j \in 1..(i - 1) :
        to_ascii_lowercase(adrs[j].title) # to_ascii_lowercase(adrs[i].title)
C7_AmendedForms(adrs) ==
    \A i \in 1..Len(adrs) :
        /\ \A x \in C7_NumberForms(adrs[i].number) : ResolveTarget(adrs, x) = i
        /\ \A x \in C7_TitleForms(adrs[i].title) :
              IF C7_IsNumberOf(adrs, x)
              THEN adrs[ResolveTarget(adrs, x)].number = Unwrap(parse_number(x))
              ELSE C7_FirstTitled(adrs, i) => ResolveTarget(adrs, x) = i
C7_Ran(adrs) ==
    IF C7_IsNumberOf(adrs, last.arg)
    THEN Unwrap(last.ret).number = Unwrap(parse_number(last.arg))
    ELSE to_ascii_lowercase(Unwrap(last.ret).title) = to_ascii_lowercase(trim(last.arg))
C7_ResolvesNumberThenTitle ==
    /\ C7_AmendedForms(Listing)
    /\ Transitioned => C7_Ran(PreListing)
\* A transition found its Record by the title written in another letter case.
C7_Witness ==
    /\ Transitioned
    /\ last.arg = T_AB
    /\ Unwrap(last.ret).title = T_aB
    /\ Len(Listing) >= 2

\* C8: a successful Transition changes the status and the date of its Record
\* and nothing else: no other file, no other field, no line of the file but
\* the Status and Date lines, not the representation, not the file name.
C8_Unmanaged(lines) == SelectSeq(lines, LAMBDA l : l.k \notin {"Status", "Date"})
C8_Frame(before, after) ==
    /\ DOMAIN files = DOMAIN pre.files
    /\ \A g \in DOMAIN files \ {after.path} : files[g] = pre.files[g]
    /\ C8_Unmanaged(files[after.path]) = C8_Unmanaged(pre.files[after.path])
    /\ StartsWithFence(files[after.path]) = StartsWithFence(pre.files[after.path])
    /\ after.number = before.number
    /\ after.title = before.title
    /\ after.supersedes = before.supersedes
    /\ after.superseded_by = before.superseded_by
    /\ after.path = before.path
    /\ after.status = last.status
    /\ after.date = Now
C8_Target(adrs) == adrs[ResolveTarget(adrs, last.arg)]
C8_TransitionFrame ==
    Transitioned => C8_Frame(C8_Target(PreListing), Unwrap(last.ret))

\* C9: a successful Create returns a Record with status Proposed and today's
\* date, and list() afterwards returns that Record with the same two values.
C9_Listed(adrs, meta) ==
    \E i \in 1..Len(adrs) :
        /\ adrs[i].path = meta.path
        /\ adrs[i].status = Proposed
        /\ adrs[i].date = Now
C9_Shown(meta) ==
    /\ meta.status = Proposed
    /\ meta.date = Now
    /\ C9_Listed(Listing, meta)
C9_CreatedProposedToday == Created => C9_Shown(Unwrap(last.ret))

\* C10: a Transition, Supersede or Reformat that finds no Record returns the
\* error and leaves every file, the index and the directory as they were.
C10_NotFoundWritesNothing ==
    last.res = "not_found" =>
        /\ last.op \in {"transition", "supersede", "reformat"}
        /\ last.ret = None
        /\ files = pre.files
        /\ index = pre.index
        /\ dirExists = pre.dirExists
\* A Supersede found no Record where no directory exists.
C10_Witness ==
    /\ last.op = "supersede"
    /\ last.res = "not_found"
    /\ ~dirExists
    /\ index = <<>>

\* C11: a Create under a template that cannot be read fails, and leaves every
\* file, the index and the directory as they were.
C11_Unreadable == last.op = "create" /\ cfg.template = "missing"
C11_TemplateErrorWritesNothing ==
    /\ C11_Unreadable <=> last.res = "template_error"
    /\ C11_Unreadable =>
          /\ last.ret = None
          /\ files = pre.files
          /\ index = pre.index
          /\ dirExists = pre.dirExists
\* A Create failed on its template in a directory that holds documents.
C11_Witness ==
    /\ last.res = "template_error"
    /\ pre.files # NoFiles
    /\ files = pre.files

\* C12 as first stated: the status of a Record only ever changes from Proposed
\* to Accepted or Rejected, or from one of these three to "Superseded by <N>".
C12_StatusIn(fs, f) == parse_adr_file(f, fs[f], Now).status
C12_Kept == {f \in DOMAIN files \cap DOMAIN pre.files : IsDocument(f)}
C12_IsSupersession(t) == t # <<>> /\ t[1] = "Superseded by "
C12_Listed(old, new) ==
    \/ old = new
    \/ old = Proposed /\ new \in {Accepted, Rejected}
    \/ old \in {Proposed, Accepted, Rejected} /\ C12_IsSupersession(new)
C12_ByCommand(f, new, next) ==
    \/ f = FileName(next, slugify(last.title), "md")
    \/ new = SupersededByText(next)
C12_Target(adrs) == adrs[FirstWith(WithNumber(adrs, last.id))]
C12_ByReformat(f, t) == f = FileName(t.number, slugify(t.title), cfg.format)
C12_Cause(f, new) ==
    \/ Transitioned /\ f = Unwrap(last.ret).path /\ new = last.status
    \/ Superseded /\ f = C3_FileOf(PreListing) /\ new = SupersededByText(last.new)
    \/ Created /\ f = Unwrap(last.ret).path
    \/ last.op = "command" /\ C12_ByCommand(f, new, NextNumber(list(pre.files, TRUE, Now)))
    \/ last.op = "reformat" /\ last.res # "not_found" /\ C12_ByReformat(f, C12_Target(PreListing))
C13_InStep(r) ==
    IsSome(r.superseded_by) => r.status = SupersededByText(Unwrap(r.superseded_by))
C13_Lockstep(all) == \A r \in all : C13_InStep(r)
C13_StatusFollowsSupersededBy ==
    C13_Lockstep(Records(pre.files, Now)) => C13_Lockstep(Records(files, Now))

\* C14: of the Records of the collection, B has supersedes = a exactly when
\* the Record numbered a has superseded_by = the number of B.
C14_Paired(all) ==
    \A a \in all, b \in all :
        (b.supersedes = Some(a.number)) <=> (a.superseded_by = Some(b.number))
C14_SupersedesPaired == C14_Paired(Records(files, Now))

\* C15: a Record listed with superseded_by set before a Transition, Supersede
\* or Reformat is listed with superseded_by set after it.
C15_StillSet(after, number) ==
    \E j \in 1..Len(after) :
        after[j].number = number /\ IsSome(after[j].superseded_by)
C15_Kept(before, after) ==
    \A i \in 1..Len(before) :
        IsSome(before[i].superseded_by) => C15_StillSet(after, before[i].number)
C15_SupersededByStays ==
    last.op \in {"transition", "supersede", "reformat"} => C15_Kept(PreListing, Listing)

\* C16: a successful accept or reject returns and lists its Record under
\* today's date; a successful Supersede(a, b) leaves the Date lines of the file
\* of a as they were.
C16_Dates(lines) == SelectSeq(lines, LAMBDA l : l.k = "Date")
C16_ListedToday(adrs, meta) ==
    \E i \in 1..Len(adrs) : adrs[i].path = meta.path /\ adrs[i].date = Now
C16_Refreshed(meta) ==
    /\ meta.date = Now
    /\ C16_ListedToday(Listing, meta)
    /\ C16_Dates(files[meta.path]) # <<>>
    /\ \A i \in 1..Len(C16_Dates(files[meta.path])) :
          C16_Dates(files[meta.path])[i] = DateLine(Now)
C16_DateKept(f) == C16_Dates(files[f]) = C16_Dates(pre.files[f])
C16_DateOnTransitionOnly ==
    /\ Transitioned => C16_Refreshed(Unwrap(last.ret))
    /\ Superseded => C16_DateKept(C3_FileOf(PreListing))

\* C17: a Reformat(n) under a configuration whose extension is not the one
\* the file of n has succeeds; the file named by number, slug and the new
\* extension then exists, the old file does not, and one document holds n.
C17_Target == PreListing[FirstWith(WithNumber(PreListing, last.id))]
C17_Holding(number) == {r \in Records(files, Now) : r.number = number}
C17_Done(t) ==
    /\ last.res = "ok"
    /\ Unwrap(last.ret).path = FileName(t.number, slugify(t.title), cfg.format)
    /\ FileName(t.number, slugify(t.title), cfg.format) \in DOMAIN files
    /\ t.path \notin DOMAIN files
    /\ Cardinality(C17_Holding(t.number)) = 1
C17_Moves(t) == t.path.ext # cfg.format => C17_Done(t)
C17_ReformatChangesExtension ==
    (last.op = "reformat" /\ last.res # "not_found") => C17_Moves(C17_Target)

\* C18: the Record a successful Reformat returns, and list() gives afterwards,
\* has the number, title, date, status, superseded_by and supersedes listed
\* before it, and the new file ends with the tail of the old one.
C18_SameFields(before, after) ==
    /\ after.number = before.number
    /\ after.title = before.title
    /\ after.date = before.date
    /\ after.status = before.status
    /\ after.superseded_by = before.superseded_by
    /\ after.supersedes = before.supersedes
C18_EndsWith(lines, tail) ==
    /\ Len(lines) >= Len(tail)
    /\ SubSeq(lines, Len(lines) - Len(tail) + 1, Len(lines)) = tail
C18_Kept(before, after) ==
    /\ C18_SameFields(before, after)
    /\ C18_SameFields(before, parse_adr_file(after.path, files[after.path], Now))
    /\ C18_EndsWith(files[after.path], body_after_meta(pre.files[before.path]))
C18_ReformatKeepsContent ==
    Reformatted => C18_Kept(C17_Target, Unwrap(last.ret))

\* C20: the index an operation writes holds one line for each Record of the
\* collection and nothing else after its title, in ascending order of number.
C20_Entries == SelectSeq(index, LAMBDA l : l.k = "entry")
C20_Ascending(entries) ==
    \A i \in 1..Len(entries), j \in 1..Len(entries) :
        i < j => DigitsValue(entries[i].num) < DigitsValue(entries[j].num)
C20_OnePerRecord(entries, all) ==
    /\ Len(entries) = Cardinality(all)
    /\ \A r \in all : \E i \in 1..Len(entries) :
          /\ entries[i].fname = r.path
          /\ entries[i].num = Pad4(r.number)
C20_Whole(entries) ==
    index = <<Text("# Architecture Decision Records"), Blank>> \o entries \o <<Blank>>
C20_IndexIsTheCollection ==
    IndexWritten =>
        /\ C20_Whole(C20_Entries)
        /\ C20_Ascending(C20_Entries)
        /\ C20_OnePerRecord(C20_Entries, Records(files, Now))

\* C19: the supersede command on a Record that already has superseded_by set
\* fails, and the directory holds the documents it held before.
C19_Documents(fs) == {f \in DOMAIN fs : IsDocument(f)}
C19_AlreadySuperseded(adrs, id) ==
    /\ IsSome(parse_number(id))
    /\ \E i \in 1..Len(adrs) :
          /\ adrs[i].number = Unwrap(parse_number(id))
          /\ IsSome(adrs[i].superseded_by)
C19_Refused ==
    /\ last.res # "ok"
    /\ C19_Documents(files) = C19_Documents(pre.files)
C19_CommandRefusesSuperseded ==
    (last.op = "command" /\ C19_AlreadySuperseded(PreListing, last.id)) => C19_Refused

\* C21: a call that meets a failing file-system step (listing, reading,
\* writing or removing a file) returns the error, and returns no Record.
C21_FaultMet == last.op \in {"reformat_cut", "supersede_cut"} /\ last.at \in FaultSteps
C21_IoFailureIsAnError ==
    C21_FaultMet => (last.res = "io_error" /\ last.ret = None)

\* C22: two calls of create_new_adr that both list the directory before either
\* writes are given the same number, and both write their document under it.
C22_Raced(p, q) ==
    /\ p # q
    /\ calls[p].at = "done"
    /\ calls[q].at = "done"
    /\ calls[p].found = calls[q].found
C22_SameNumber(a, b) ==
    /\ a.number = b.number
    /\ a.path \in DOMAIN files
    /\ b.path \in DOMAIN files
C22_RaceSharesNumber ==
    \A p \in Callers, q \in Callers :
        C22_Raced(p, q) => C22_SameNumber(Unwrap(calls[p].ret), Unwrap(calls[q].ret))
\* Two raced calls left two documents with one number.
C22_Witness ==
    /\ C22_Raced("first", "second")
    /\ Unwrap(calls["first"].ret).number = Unwrap(calls["second"].ret).number
    /\ Unwrap(calls["first"].ret).path # Unwrap(calls["second"].ret).path
    /\ {Unwrap(calls["first"].ret).path, Unwrap(calls["second"].ret).path} \subseteq DOMAIN files

\* C23: a Reformat or a Supersede that stops between two of its writes leaves
\* every file either as it was or as the whole operation writes it, and the
\* index as it was; in Reformat the new file is there from the first write on,
\* no file but the old one is gone, the links are patched only once the old
\* file is removed, and a document still holds the number.
C23_Whole(full) ==
    \A f \in DOMAIN files :
        \/ f \in DOMAIN pre.files /\ files[f] = pre.files[f]
        \/ f \in DOMAIN full.files /\ files[f] = full.files[f]
C23_Patched(new_path) ==
    \E g \in (DOMAIN files \cap DOMAIN pre.files) \ {new_path} : files[g] # pre.files[g]
C23_ReformatStopped(t, new_path, full) ==
    /\ last.res = "stopped"
    /\ index = pre.index
    /\ C23_Whole(full)
    /\ new_path \in DOMAIN files
    /\ files[new_path] = full.files[new_path]
    /\ DOMAIN pre.files \ DOMAIN files \subseteq {t.path}
    /\ C23_Patched(new_path) => (t.path = new_path \/ t.path \notin DOMAIN files)
    /\ \E r \in Records(files, Now) : r.number = t.number
C23_SupersedeStopped(f, full) ==
    /\ last.res = "stopped"
    /\ index = pre.index
    /\ DOMAIN files = DOMAIN pre.files
    /\ files[f] = full.files[f]
    /\ \A g \in DOMAIN files \ {f} : files[g] = pre.files[g]
C23_NewPath(t) == FileName(t.number, slugify(t.title), cfg.format)
C23_CrashLeavesWholeFiles ==
    /\ (last.op = "reformat_cut" /\ last.at \in CrashPoints) =>
          C23_ReformatStopped(C17_Target, C23_NewPath(C17_Target),
                              reformat(pre, cfg, Now, last.id))
    /\ (last.op = "supersede_cut" /\ last.at \in CrashPoints) =>
          C23_SupersedeStopped(C3_FileOf(PreListing),
                               mark_superseded(pre, Now, last.old, last.new))
\* A Reformat stopped with the old file removed and a link to it not yet
\* patched.
C23_Witness ==
    /\ last.op = "reformat_cut"
    /\ last.at = "crash_removed"
    /\ C17_Target.path \notin DOMAIN files
    /\ \E g \in DOMAIN files \cap DOMAIN reformat(pre, cfg, Now, last.id).files :
          files[g] # reformat(pre, cfg, Now, last.id).files[g]

\* C24: the Supersedes line a Create or a Reformat writes for number n is the
\* link "[<n:04>](<file of n>)" when the collection holds a Record n at that
\* moment and the bare padded number when it holds none; a template line
\* filled with no supersedes holds the empty text.
C24_Lines(lines) == SelectSeq(lines, LAMBDA l : l.k = "Supersedes")
C24_Emitted(l, n, all, old_path, new_path) ==
    IF n = None THEN l = SupersedesBare(<<>>)
    ELSE IF \E r \in all : r.number = Unwrap(n)
    THEN \E r \in all :
            /\ r.number = Unwrap(n)
            /\ l = SupersedesLink(Pad4(Unwrap(n)),
                                  IF r.path = old_path THEN new_path ELSE r.path)
    ELSE l = SupersedesBare(Pad4(Unwrap(n)))
C24_AllEmitted(lines, n, all, old_path, new_path) ==
    \A i \in 1..Len(lines) : C24_Emitted(lines[i], n, all, old_path, new_path)
C24_CreateEmits(meta) ==
    /\ (cfg.template = "full" \/ (cfg.template = "none" /\ IsSome(last.supersedes)))
          => Len(C24_Lines(files[meta.path])) = 1
    /\ C24_AllEmitted(C24_Lines(files[meta.path]), last.supersedes,
                      Records(pre.files, Now), meta.path, meta.path)
\* Reformat renders the reference above the tail it copies: its line is the
\* first Supersedes line of the new file.
C24_ReformatEmits(t, new_path) ==
    IsSome(t.supersedes) =>
        /\ Len(C24_Lines(files[new_path])) >= 1
        /\ C24_Emitted(C24_Lines(files[new_path])[1], t.supersedes,
                       Records(pre.files, Now), t.path, new_path)
C24_SupersedesLinkWhenPresent ==
    /\ Created => C24_CreateEmits(Unwrap(last.ret))
    /\ (last.op = "reformat" /\ last.res # "not_found")
          => C24_ReformatEmits(C17_Target, C23_NewPath(C17_Target))

\* C25: the same Supersede(a, b), or the same accept or reject on the same
\* day, run a second time succeeds and leaves the file of its Record as the
\* first run wrote it.
C25_Unchanged(again, f) ==
    /\ again.res = "ok"
    /\ f \in DOMAIN again.files
    /\ again.files[f] = files[f]
C25_Transition == IF last.status = Accepted THEN accept(Here, Now, last.arg)
                  ELSE reject(Here, Now, last.arg)
C25_UpdateIdempotent ==
    /\ Superseded =>
          C25_Unchanged(mark_superseded(Here, Now, last.old, last.new),
                        C3_FileOf(PreListing))
    /\ Transitioned => C25_Unchanged(C25_Transition, Unwrap(last.ret).path)

\* C26: a Supersede(a, c) of a Record that b had superseded leaves the file of
\* a with the status "Superseded by <c>" and "Superseded-by: <c>", and with
\* no Status or Superseded-by line that names b.
C26_Names(l, b) ==
    \/ l.k = "Status" /\ l.v = SupersededByText(b)
    \/ l.k = "Superseded-by" /\ ParseU32(trim(l.num)) = Some(b)
C26_Overwritten(f, b) ==
    /\ parse_adr_file(f, files[f], Now).status = SupersededByText(last.new)
    /\ parse_adr_file(f, files[f], Now).superseded_by = Some(last.new)
    /\ \A i \in 1..Len(files[f]) : ~C26_Names(files[f][i], b)
C26_Before == PreListing[FirstWith(WithNumber(PreListing, last.old))]
C26_ResupersedeOverwrites ==
    (Superseded /\ IsSome(C26_Before.superseded_by)
                /\ C26_Before.superseded_by # Some(last.new))
        => C26_Overwritten(C26_Before.path, Unwrap(C26_Before.superseded_by))

\* C27: a document with no metadata to recover (no ": " in its first line, no
\* Title, Date, Status, Supersedes or Superseded-by line) parses to the title
\* read off the file name (the words between '-', each with its first letter
\* in upper case), status "Accepted", today's date, the number in the file
\* name and no supersedes or superseded_by; the number of any document is the
\* one its first line yields, else the one in its file name; and list() holds
\* no file whose name is not four digits, '-', anything, and an extension of
\* documents.
RECURSIVE C27_DeSlug(_, _, _)
C27_DeSlug(slug, out, fresh) ==
    IF slug = <<>> THEN out
    ELSE IF Head(slug) = "-" THEN C27_DeSlug(Tail(slug), out, TRUE)
    ELSE C27_DeSlug(Tail(slug),
                    out \o (IF fresh /\ out # <<>> THEN <<" ">> ELSE <<>>)
                        \o <<IF fresh THEN char_to_ascii_uppercase(Head(slug))
                             ELSE Head(slug)>>,
                    FALSE)
C27_Prefix(f) == DigitsValue(SubSeq(f.stem, 1, 4))
C27_Slug(f) == SubSeq(f.stem, 6, Len(f.stem))
C27_NoMetadata(lines) ==
    /\ lines[1].k \in {"blank", "fence", "text", "h1"}
    /\ \A i \in 1..Len(lines) : ~IsMeta(lines[i])
C27_Fallback(f) ==
    [number |-> C27_Prefix(f),
     title |-> IF C27_Slug(f) = <<>> THEN <<"U", "n", "t", "i", "t", "l", "e", "d">>
               ELSE C27_DeSlug(C27_Slug(f), <<>>, TRUE),
     status |-> Accepted, date |-> Now, supersedes |-> None, superseded_by |-> None,
     path |-> f]
C27_FirstLineNumber(l) ==
    IF l.k = "heading" /\ IsSome(ParseU32(l.num)) THEN ParseU32(l.num) ELSE None
C27_Number(f, lines) ==
    IF IsSome(C27_FirstLineNumber(lines[1])) THEN Unwrap(C27_FirstLineNumber(lines[1]))
    ELSE C27_Prefix(f)
C27_Matches(f) ==
    /\ f.ext \in {"md", "mdx"}
    /\ Len(f.stem) >= 5
    /\ \A i \in 1..4 : is_ascii_digit(f.stem[i])
    /\ f.stem[5] = "-"
C27_Parsed(f, rec) ==
    /\ rec.number = C27_Number(f, files[f])
    /\ C27_NoMetadata(files[f]) => rec = C27_Fallback(f)
C27_Sound(adrs) ==
    {adrs[i].path : i \in 1..Len(adrs)} \subseteq {f \in DOMAIN files : C27_Matches(f)}
C27_FallbackRecord ==
    /\ \A f \in DOMAIN files :
          IsDocument(f) => C27_Parsed(f, parse_adr_file(f, files[f], Now))
    /\ C27_Sound(Listing)
\* A Create under a template with no metadata left a document that lists under
\* the title read off its file name and the status "Accepted".
C27_Witness ==
    /\ Created
    /\ C27_NoMetadata(files[Unwrap(last.ret).path])
    /\ \E i \in 1..Len(Listing) :
          /\ Listing[i].path = Unwrap(last.ret).path
          /\ Listing[i].title # last.title
          /\ Listing[i].status = Accepted

\* C28: the file a Create writes is not the file of a Record the collection
\* held before the call.
C28_CreateNeverOverwrites ==
    Created => \A r \in Records(pre.files, Now) : r.path # Unwrap(last.ret).path

\* C29: after a successful Create, Transition, Supersede or Reformat the index
\* is the rendering of what list() returns right after the operation.
C29_IndexIsFreshListing ==
    (Created \/ Transitioned \/ Superseded \/ Reformatted)
        => index = IndexContent(Listing)

\* C30: a successful Transition or Supersede leaves every file of the
\* directory other than the one of the resolved target as it was, the file of
\* the superseding Record included; no file appears or disappears.
C30_Target ==
    IF Superseded THEN PreListing[FirstWith(WithNumber(PreListing, last.old))].path
    ELSE PreListing[ResolveTarget(PreListing, last.arg)].path
C30_OnlyTargetWritten ==
    (Transitioned \/ Superseded)
        => /\ DOMAIN files = DOMAIN pre.files
           /\ \A f \in DOMAIN files : f # C30_Target => files[f] = pre.files[f]
C30_Witness ==
    /\ Superseded
    /\ files[C30_Target] # pre.files[C30_Target]
    /\ \E i \in 1..Len(PreListing) :
           /\ PreListing[i].number = last.new
           /\ PreListing[i].path # C30_Target
           /\ files[PreListing[i].path] = pre.files[PreListing[i].path]

====
